---- MODULE Spec2Model ----
(***************************************************************************)
(* Model of the route-variety-helper backend: the Flask application that   *)
(* proxies Strava (OAuth2 token exchange / refresh, activity list,         *)
(* coordinate stream, GPX) and resolves points of interest near a route.   *)
(*                                                                         *)
(* The repository holds two variants of the service:                       *)
(*   "root"     src/src/app.py          (Config, StravaAPIError, Places    *)
(*                                       proximity search: Strategy B)     *)
(*   "backend"  src/src/backend/app.py  (bare except Exception, osmnx      *)
(*                                       bulk feature query: Strategy A)   *)
(* The variable `variant` fixes which one a behaviour runs.                *)
(*                                                                         *)
(* Spec     : the session gate and the authenticated endpoints, with       *)
(*            two request slots of one browser session interleaving at    *)
(*            their blocking network calls.                                *)
(* PoiSpec  : POST /api/pois and the two POI resolvers.                    *)
(* StartSpec: the module-level code of app.py, from the environment the    *)
(*            process is started in to the serving state.                  *)
(***************************************************************************)
EXTENDS Integers, Sequences, FiniteSets, TLC

VARIABLES
    variant,     \* which app.py is running: "root" or "backend"
    now,         \* wall clock, time.time()
    cookie,      \* the browser's session cookie: <<>> or <<Token>>
    cookieFrom,  \* what last wrote the cookie: "none", "callback", "refresh",
                 \* "refresh_failed" or "logout"
    req,         \* per request slot: the request being served (see IdleSlot)
    poi,         \* the POST /api/pois request being served (PoiSpec)
    boot         \* the server process: its environment and how far the
                 \* module-level code of app.py has run (StartSpec)

vars == <<variant, now, cookie, cookieFrom, req, poi, boot>>

----------------------------------------------------------------------------
(* Bounds of the model *)

MaxTime == 2       \* the clock runs 0..MaxTime
MaxActs == 1       \* raw activity records in one upstream page
MaxStream == 1     \* coordinate pairs in one upstream stream

\* the request slots: two concurrent requests of the one browser session
Requests == {1, 2}
Variants == {"root", "backend"}

----------------------------------------------------------------------------
(* Token, session *)

\* response.json() of the token endpoint: the Token record kept in the session
Token(id, exp) == [access_token |-> id, refresh_token |-> id, expires_at |-> exp]

\* flask.session holds at most the key 'strava_token'
EmptySession == <<>>
HasToken(s) == Len(s) > 0
SessionToken(s) == s[1]

\* outcome of one blocking call to the provider
Outcomes == {"ok", "request_error", "other_error"}

\* the exception that leaves a StravaAPI method for a failed call:
\* root wraps requests.RequestException into StravaAPIError and lets any
\* other exception through; backend wraps nothing
Raised(v, outcome) ==
    IF v = "root"
    THEN (IF outcome = "request_error" THEN "StravaAPIError" ELSE "Exception")
    ELSE (IF outcome = "request_error" THEN "RequestException" ELSE "Exception")

\* the except clause of the gate and of the handlers:
\* root `except StravaAPIError`, backend `except Exception`
Catches(v, exc) == v = "backend" \/ exc = "StravaAPIError"

----------------------------------------------------------------------------
(* One request of the browser session.  A request runs from one blocking   *)
(* network call to the next in one step; the clock and the other requests  *)
(* move while it waits for the provider.                                   *)

\* pc         "idle" | "refreshing" | "exchanging" | "upstream" | "done"
\* ep         endpoint being served
\* sess       flask.session of this request, loaded from the cookie
\* from       what had last written the cookie the request arrived with
\* wrote      why this request wrote its session, if it did
\* modified   session.modified: the cookie is re-sent with the response
\* log        calls made so far, in order
\* atGate     what the gate found: "absent", or the Token's expires_at against
\*            the clock the gate read: "past", "present" or "future"
\* usedTok    the session Token whose access_token went to the data client
\* refreshArg the refresh_token values passed to refresh_access_token
\* fetched    what the data client returned to the handler
\* code       request.args.get('code') of a callback request: "absent" or
\*            "present"
\* resp       [status, body] once answered
IdleSlot ==
    [pc |-> "idle", ep |-> "none", sess |-> EmptySession, from |-> "none",
     wrote |-> "none", modified |-> FALSE,
     log |-> <<>>, atGate |-> "none", usedTok |-> <<>>,
     refreshArg |-> <<>>, fetched |-> <<>>, code |-> "none",
     resp |-> [status |-> 0, body |-> <<>>]]

\* return jsonify(...), status
Answer(q, status, body) ==
    [q EXCEPT !.pc = "done", !.resp = [status |-> status, body |-> body]]

\* an exception no handler catches: Flask answers 500
Unhandled(q) == Answer(q, 500, <<"Internal Server Error">>)

\* the wrapped handler, from its dispatch to its call of the data client:
\*   access_token = session['strava_token']['access_token']   (outside the try)
\*   strava_api.get_...(access_token)
handler_call(q, t) ==
    LET d == [q EXCEPT !.log = Append(@, "dispatch")]
    IN  IF ~HasToken(q.sess)
        THEN Unhandled(d)
        ELSE [d EXCEPT !.pc = "upstream",
                       !.log = Append(@, "upstream"),
                       !.usedTok = q.sess]

\* expires_at of the session's Token against the clock value t
CompareExpiry(s, t) ==
    IF ~HasToken(s) THEN "absent"
    ELSE IF SessionToken(s).expires_at < t THEN "past"
    ELSE IF SessionToken(s).expires_at > t THEN "future"
    ELSE "present"

\* the gate's decision on the session it is given
auth_required_check_NoExpiry(s, t) ==
    IF ~HasToken(s) THEN "unauthorized" ELSE "proceed"

auth_required_check_Inverted(s, t) ==
    IF ~HasToken(s) THEN "unauthorized"
    ELSE IF SessionToken(s).expires_at >= t THEN "refresh" ELSE "proceed"

auth_required_check_NoGuard(s, t) ==
    IF HasToken(s) /\ SessionToken(s).expires_at < t THEN "refresh" ELSE "proceed"

auth_required_check(s, t) ==
    IF ~HasToken(s) THEN "unauthorized"
    ELSE IF SessionToken(s).expires_at < t THEN "refresh" ELSE "proceed"

\* decorated_function, up to its first blocking call
auth_required(q, t) ==
    LET d == auth_required_check(q.sess, t)
        g == [q EXCEPT !.atGate = CompareExpiry(q.sess, t)]
    IN  CASE d = "unauthorized" -> Answer(g, 401, <<"unauthorized">>)
          [] d = "refresh" ->
                [g EXCEPT !.pc = "refreshing",
                          !.log = Append(@, "refresh"),
                          !.refreshArg = Append(@, SessionToken(q.sess).refresh_token)]
          [] OTHER -> handler_call(g, t)

\* decorated_function, from the return of refresh_access_token on
auth_required_refreshed(v, q, outcome, newTok, t) ==
    IF outcome = "ok"
    THEN handler_call([q EXCEPT !.sess = <<newTok>>, !.modified = TRUE,
                                !.wrote = "refresh"], t)
    ELSE IF Catches(v, Raised(v, outcome))
         THEN Answer([q EXCEPT !.sess = EmptySession, !.modified = TRUE,
                               !.wrote = "refresh_failed"],
                     401, <<"reauthenticate">>)
         ELSE Unhandled(q)

----------------------------------------------------------------------------
(* The handlers, from the return of their upstream call on *)

\* a raw activity record of the provider: its id and what its "map" holds
RawKinds ==
    {[has_map |-> FALSE, has_key |-> FALSE, poly |-> "<None>"],
     [has_map |-> TRUE,  has_key |-> FALSE, poly |-> "<None>"],
     [has_map |-> TRUE,  has_key |-> TRUE,  poly |-> "<None>"],
     [has_map |-> TRUE,  has_key |-> TRUE,  poly |-> ""],
     [has_map |-> TRUE,  has_key |-> TRUE,  poly |-> "enc"]}

RawActivity(i, k) ==
    [id |-> i, has_map |-> k.has_map, has_key |-> k.has_key, poly |-> k.poly]

\* the pages the provider can answer with: up to MaxActs records, ids 1..n
ActivityPages ==
    UNION {{[i \in 1..n |-> RawActivity(i, ks[i])] : ks \in [1..n -> RawKinds]}
           : n \in 0..MaxActs}

\* Python truth value of a str-or-None
Truthy(v) == v # "<None>" /\ v # ""

\* act.get("map", {}).get("summary_polyline")
summary_polyline(act) ==
    IF act.has_map /\ act.has_key THEN act.poly ELSE "<None>"

\* the `if` of the list comprehension of get_activities
keeps_activity_KeyPresent(act) == act.has_map /\ act.has_key

keeps_activity(act) == Truthy(summary_polyline(act))

\* filtered_activities: the ids of the records kept, in upstream order
filtered_activities(activities) ==
    LET kept == SelectSeq(activities, keeps_activity)
    IN  [i \in 1..Len(kept) |-> kept[i].id]

\* get_activities, from the return of strava_api.get_activities on
get_activities(v, q, outcome, activities) ==
    IF outcome = "ok"
    THEN Answer(q, 200, filtered_activities(activities))
    ELSE IF Catches(v, Raised(v, outcome))
         THEN Answer(q, 500, <<"Failed to fetch activities">>)
         ELSE Unhandled(q)

\* a coordinate stream of n [lat, lng] pairs
Stream(n) == [i \in 1..n |-> <<40 + i, 7 + i>>]

\* the status of a successful stream fetch: `if not latlng_stream`
stream_status_EmptyIsError(latlng_stream) ==
    IF Len(latlng_stream) = 0 THEN 500 ELSE 200

stream_status(latlng_stream) ==
    IF Len(latlng_stream) = 0 THEN 404 ELSE 200

\* the status of a failed stream fetch caught by the handler
stream_failure_status == 500

\* get_activity_stream_data (root only), from the return of get_activity_stream on
get_activity_stream_data(v, q, outcome, latlng_stream) ==
    IF outcome = "ok"
    THEN IF stream_status(latlng_stream) = 200
         THEN Answer(q, 200, latlng_stream)
         ELSE Answer(q, stream_status(latlng_stream), <<"No GPS data found">>)
    ELSE IF Catches(v, Raised(v, outcome))
         THEN Answer(q, stream_failure_status, <<"Failed to fetch activity data">>)
         ELSE Unhandled(q)

\* create_gpx_string: one trkpt per coordinate, lat and lon in input order
create_gpx_string(coords) ==
    [i \in 1..Len(coords) |-> [lat |-> coords[i][1], lon |-> coords[i][2]]]

\* get_activity_gpx, from the return of get_activity_stream on
get_activity_gpx(v, q, outcome, latlng_stream) ==
    IF outcome = "ok"
    THEN IF stream_status(latlng_stream) = 200
         THEN Answer(q, 200, create_gpx_string(latlng_stream))
         ELSE Answer(q, stream_status(latlng_stream), <<"No GPS data found">>)
    ELSE IF Catches(v, Raised(v, outcome))
         THEN Answer(q, stream_failure_status, <<"Failed to fetch activity data">>)
         ELSE Unhandled(q)

\* auth_status
auth_status(q, t) ==
    Answer(q, 200, <<HasToken(q.sess) /\ SessionToken(q.sess).expires_at > t>>)

\* logout: session.clear()
logout(q) ==
    Answer([q EXCEPT !.sess = EmptySession, !.modified = TRUE,
                     !.wrote = "logout"],
           200, <<"Successfully logged out">>)

\* strava_callback, up to its call of exchange_code_for_token
strava_callback(q, has_code) ==
    IF ~has_code
    THEN Answer(q, 400, <<"Authorization code not provided">>)
    ELSE [q EXCEPT !.pc = "exchanging", !.log = Append(@, "exchange")]

\* a callback that stores what it holds whether or not the exchange returned
strava_callback_exchanged_StoresAlways(v, q, outcome, newTok) ==
    Answer([q EXCEPT !.sess = <<newTok>>, !.modified = TRUE,
                     !.wrote = "callback"],
           IF outcome = "ok" THEN 302 ELSE 500, <<"/activities">>)

\* strava_callback, from the return of exchange_code_for_token on
strava_callback_exchanged(v, q, outcome, newTok) ==
    IF outcome = "ok"
    THEN Answer([q EXCEPT !.sess = <<newTok>>, !.modified = TRUE,
                          !.wrote = "callback"],
                302, <<"/activities">>)
    ELSE IF Catches(v, Raised(v, outcome))
         THEN Answer(q, 500, <<"Authentication failed">>)
         ELSE Unhandled(q)

----------------------------------------------------------------------------
(* The session gate and the authenticated endpoints: actions *)

----------------------------------------------------------------------------
(* POST /api/pois: the request and the two resolvers *)

\* Config.POI_ROUTE_SAMPLING_DISTANCE when the environment sets none
DefaultSamplingDistance == 500

\* the search radius in metres of the bulk-query resolver
RouteRadius == 100

\* pc          "idle" | "searching" | "fetching" | "done"
\* sampling    Config.POI_ROUTE_SAMPLING_DISTANCE of this process
\* body        the JSON body of the request
\* samples     sample_points of the proximity-search resolver
\* i           the sample point the loop is at
\* found_pois  the accumulated mapping, in insertion order
\* calls       network calls issued: places_nearby or features_from_geometry
\* failed      the sample points whose search raised
\* last        what the latest places_nearby or features_from_geometry call
\*             returned
\* resp        [status, body] once answered
PoiIdle ==
    [pc |-> "idle", sampling |-> DefaultSamplingDistance,
     body |-> [shape |-> "none", route |-> <<>>], samples |-> <<>>, i |-> 0,
     found_pois |-> <<>>, calls |-> 0, failed |-> {}, last |-> <<>>,
     resp |-> [status |-> 0, body |-> <<>>]]

----------------------------------------------------------------------------
(* Process start: the module-level code of app.py *)

\* the required values of the configuration surface
EnvNames ==
    {"STRAVA_CLIENT_ID", "STRAVA_CLIENT_SECRET", "GOOGLE_MAPS_API_KEY",
     "FLASK_SECRET_KEY"}

\* a variable of the environment is unset (os.getenv gives None), set to the
\* empty string, or set to a value
EnvValues == {"<None>", "", "set"}

Environments == [EnvNames -> EnvValues]

FullEnv == [n \in EnvNames |-> "set"]

\* os.getenv(name, default)
getenv(env, name, default) ==
    IF env[name] = "<None>" THEN default ELSE env[name]

\* the attributes of class Config, read from the environment when config.py
\* is imported
Config(env) ==
    [n \in EnvNames |->
        IF n = "FLASK_SECRET_KEY"
        THEN getenv(env, n, "dev-secret-key")
        ELSE getenv(env, n, "<None>")]

\* what the backend variant reads with os.getenv at each use
backend_getenv(env) == [n \in EnvNames |-> getenv(env, n, "<None>")]

\* Config.validate: the names it reports missing
validate(config) ==
    {n \in {"STRAVA_CLIENT_ID", "STRAVA_CLIENT_SECRET", "GOOGLE_MAPS_API_KEY"} :
        ~Truthy(config[n])}

\* pc          "start" | "imported" | "validated" | "app" | "client" |
\*             "serving" | "failed"
\* env         the environment of the process
\* config      the configuration values the code reads
\* gmaps       the maps client of poi_service is constructed
\* app         the Flask application is constructed
\* secret_key  app.secret_key
\* strava_api  the provider client is constructed
BootStart(env) ==
    [pc |-> "start", env |-> env, config |-> [n \in EnvNames |-> "<None>"],
     gmaps |-> FALSE, app |-> FALSE, secret_key |-> "<None>",
     strava_api |-> FALSE]

\* the imports at the head of app.py: the root variant's config.py reads the
\* environment and its poi_service.py constructs the maps client when it has
\* a key; the backend variant only loads the .env file
import_modules(v, b) ==
    IF v = "root"
    THEN [b EXCEPT !.pc = "imported", !.config = Config(b.env),
                   !.gmaps = Truthy(Config(b.env)["GOOGLE_MAPS_API_KEY"])]
    ELSE [b EXCEPT !.pc = "imported", !.config = backend_getenv(b.env)]

\* try: Config.validate() except ValueError: raise  (root variant only)
validate_config(b) ==
    IF validate(b.config) # {}
    THEN [b EXCEPT !.pc = "failed"]
    ELSE [b EXCEPT !.pc = "validated"]

\* app = Flask(__name__); app.secret_key = ...
create_app(b) ==
    [b EXCEPT !.pc = "app", !.app = TRUE,
              !.secret_key = b.config["FLASK_SECRET_KEY"]]

\* strava_api = get_strava_client(): the root variant's StravaAPI.__init__
\* raises ValueError without a client id and secret, the backend's takes
\* what it is given
get_strava_client(v, b) ==
    IF /\ v = "root"
       /\ \/ ~Truthy(b.config["STRAVA_CLIENT_ID"])
          \/ ~Truthy(b.config["STRAVA_CLIENT_SECRET"])
    THEN [b EXCEPT !.pc = "failed"]
    ELSE [b EXCEPT !.pc = "client", !.strava_api = TRUE]

\* the module has run to its end: the routes are registered and the server
\* takes requests
serve(b) == [b EXCEPT !.pc = "serving"]

\* the process of a deployment whose environment sets every value
Booted(v) ==
    LET imported == import_modules(v, BootStart(FullEnv))
        checked == IF v = "root" THEN validate_config(imported) ELSE imported
    IN  serve(get_strava_client(v, create_app(checked)))

\* /api/activities/<id>/stream is routed by the root variant only
ProtectedEndpoints(v) ==
    IF v = "root" THEN {"activities", "stream", "gpx"} ELSE {"activities", "gpx"}

\* the server takes a request on its lowest free slot
Free(r) ==
    /\ req[r].pc = "idle"
    /\ \A o \in Requests : o < r => req[o].pc # "idle"

\* a request arrives with the browser's cookie as its session
Arrived(e) == [IdleSlot EXCEPT !.ep = e, !.sess = cookie, !.from = cookieFrom]

\* the Token the provider issues at time t: named by its time of issue, it
\* expires one tick of the clock later
IssuedToken(t) == Token(t, t + 1)

\* the blocking call of request slot q ends: it returned or it raised
CallEnds(q, outcome) ==
    [q EXCEPT !.log = Append(@, IF outcome = "ok" THEN "returned" ELSE "raised")]

\* time.time() advances
Tick ==
    /\ now < MaxTime
    /\ now' = now + 1
    /\ UNCHANGED <<variant, cookie, cookieFrom, req, poi, boot>>

\* GET of a protected endpoint: the gate, and the handler up to its upstream call
ProtectedRequest(r) ==
    /\ Free(r)
    /\ \E e \in ProtectedEndpoints(variant) :
          req' = [req EXCEPT ![r] = auth_required(Arrived(e), now)]
    /\ UNCHANGED <<variant, now, cookie, cookieFrom, poi, boot>>

\* refresh_access_token returns a new Token
RefreshSucceeds(r) ==
    /\ req[r].pc = "refreshing"
    /\ req' = [req EXCEPT ![r] =
                 auth_required_refreshed(variant, CallEnds(req[r], "ok"), "ok",
                                         IssuedToken(now), now)]
    /\ UNCHANGED <<variant, now, cookie, cookieFrom, poi, boot>>

\* refresh_access_token raises
RefreshFails(r) ==
    /\ req[r].pc = "refreshing"
    /\ \E outcome \in Outcomes \ {"ok"} :
          req' = [req EXCEPT ![r] =
                    auth_required_refreshed(variant, CallEnds(req[r], outcome),
                                            outcome, IssuedToken(now), now)]
    /\ UNCHANGED <<variant, now, cookie, cookieFrom, poi, boot>>

\* the data client returns or raises, and the handler answers
UpstreamReturns(r) ==
    /\ req[r].pc = "upstream"
    /\ \E outcome \in Outcomes :
          \/ /\ req[r].ep = "activities"
             /\ \E page \in (IF outcome = "ok" THEN ActivityPages ELSE {<<>>}) :
                   req' = [req EXCEPT ![r] =
                             get_activities(
                                 variant,
                                 [CallEnds(req[r], outcome) EXCEPT !.fetched = page],
                                 outcome, page)]
          \/ /\ req[r].ep = "stream"
             /\ \E n \in (IF outcome = "ok" THEN 0..MaxStream ELSE {0}) :
                   req' = [req EXCEPT ![r] =
                             get_activity_stream_data(
                                 variant,
                                 [CallEnds(req[r], outcome) EXCEPT
                                     !.fetched = Stream(n)],
                                 outcome, Stream(n))]
          \/ /\ req[r].ep = "gpx"
             /\ \E n \in (IF outcome = "ok" THEN 0..MaxStream ELSE {0}) :
                   req' = [req EXCEPT ![r] =
                             get_activity_gpx(
                                 variant,
                                 [CallEnds(req[r], outcome) EXCEPT
                                     !.fetched = Stream(n)],
                                 outcome, Stream(n))]
    /\ UNCHANGED <<variant, now, cookie, cookieFrom, poi, boot>>

\* GET /auth/status
StatusRequest(r) ==
    /\ Free(r)
    /\ req' = [req EXCEPT ![r] = auth_status(Arrived("status"), now)]
    /\ UNCHANGED <<variant, now, cookie, cookieFrom, poi, boot>>

\* POST /auth/logout
LogoutRequest(r) ==
    /\ Free(r)
    /\ req' = [req EXCEPT ![r] = logout(Arrived("logout"))]
    /\ UNCHANGED <<variant, now, cookie, cookieFrom, poi, boot>>

\* GET /auth/strava/callback, with or without ?code=
CallbackRequest(r) ==
    /\ Free(r)
    /\ \E has_code \in BOOLEAN :
          req' = [req EXCEPT ![r] =
                    strava_callback(
                        [Arrived("callback") EXCEPT
                            !.code = IF has_code THEN "present" ELSE "absent"],
                        has_code)]
    /\ UNCHANGED <<variant, now, cookie, cookieFrom, poi, boot>>

\* exchange_code_for_token returns a Token
ExchangeSucceeds(r) ==
    /\ req[r].pc = "exchanging"
    /\ req' = [req EXCEPT ![r] =
                 strava_callback_exchanged(variant, CallEnds(req[r], "ok"),
                                           "ok", IssuedToken(now))]
    /\ UNCHANGED <<variant, now, cookie, cookieFrom, poi, boot>>

\* exchange_code_for_token raises
ExchangeFails(r) ==
    /\ req[r].pc = "exchanging"
    /\ \E outcome \in Outcomes \ {"ok"} :
          req' = [req EXCEPT ![r] =
                    strava_callback_exchanged(variant, CallEnds(req[r], outcome),
                                              outcome, IssuedToken(now))]
    /\ UNCHANGED <<variant, now, cookie, cookieFrom, poi, boot>>

\* the response reaches the browser: a modified session replaces the cookie
Respond(r) ==
    /\ req[r].pc = "done"
    /\ cookie' = IF req[r].modified THEN req[r].sess ELSE cookie
    /\ cookieFrom' = IF req[r].modified THEN req[r].wrote ELSE cookieFrom
    /\ req' = [req EXCEPT ![r] = IdleSlot]
    /\ UNCHANGED <<variant, now, poi, boot>>

Init ==
    /\ variant \in Variants
    /\ now = 0
    /\ cookie = EmptySession
    /\ cookieFrom = "none"
    /\ req = [r \in Requests |-> IdleSlot]
    /\ poi = PoiIdle
    /\ boot = Booted(variant)

Next ==
    \/ Tick
    \/ \E r \in Requests :
          \/ ProtectedRequest(r)
          \/ RefreshSucceeds(r)
          \/ RefreshFails(r)
          \/ UpstreamReturns(r)
          \/ StatusRequest(r)
          \/ LogoutRequest(r)
          \/ CallbackRequest(r)
          \/ ExchangeSucceeds(r)
          \/ ExchangeFails(r)
          \/ Respond(r)

Spec == Init /\ [][Next]_vars

----------------------------------------------------------------------------
(* Properties of the session gate and the authenticated endpoints *)

Protected == {"activities", "stream", "gpx"}

\* how often call x was made by a request with log lg
Count(lg, x) == Cardinality({i \in 1..Len(lg) : lg[i] = x})

\* call x was made before call y (or y was not made at all)
Before(lg, x, y) ==
    \A j \in 1..Len(lg) : lg[j] = y => \E i \in 1..(j - 1) : lg[i] = x

\* request r is leaving the gate/handler for the data client in this step
CallsDataClient(r) == req[r].pc # "upstream" /\ req'[r].pc = "upstream"

\* C1: whenever a protected handler calls the Activity Data Client, the session
\* Token whose access_token it passes is not past expiry at the moment of the
\* call (expires_at is not earlier than the clock), whether the Token passed
\* the gate unchanged or was just obtained from refresh_access_token.
C1_TokenNotExpiredAtCall ==
    [][\A r \in Requests :
          CallsDataClient(r) =>
              /\ req'[r].ep \in Protected
              /\ HasToken(req'[r].usedTok)
              /\ req'[r].usedTok = req'[r].sess
              /\ SessionToken(req'[r].usedTok).expires_at >= now']_vars

\* C1 witness: one request is at the data client with a Token the gate let
\* pass unchanged, another with a Token the gate has just refreshed
C1_Witness ==
    \E r, o \in Requests :
        /\ req[r].pc = "upstream" /\ req[r].atGate \in {"present", "future"}
        /\ req[r].usedTok = cookie
        /\ req[o].pc = "upstream" /\ req[o].atGate = "past"
        /\ req[o].wrote = "refresh" /\ req[o].usedTok # cookie

\* C2: for a protected request whose session holds a Token: if expires_at is
\* in the past the gate invokes refresh_access_token exactly once, before the
\* wrapped handler is dispatched; if expires_at is in the future it never
\* invokes it during that request.
C2_RefreshExactlyOnceIffExpired ==
    \A r \in Requests :
        /\ req[r].atGate = "past" =>
              /\ Count(req[r].log, "refresh") = 1
              /\ Len(req[r].refreshArg) = 1
              /\ Before(req[r].log, "refresh", "dispatch")
        /\ req[r].atGate = "future" =>
              /\ Count(req[r].log, "refresh") = 0
              /\ Len(req[r].refreshArg) = 0

\* C2 witness: a request whose Token was expired has been refreshed once and
\* dispatched, while another whose Token was still valid was dispatched without
C2_Witness ==
    \E r, o \in Requests :
        /\ req[r].atGate = "past"
        /\ req[r].log = <<"refresh", "returned", "dispatch", "upstream">>
        /\ req[o].atGate = "future"
        /\ req[o].log = <<"dispatch", "upstream">>

\* C3: whenever the refresh attempted by the gate fails, for any kind of
\* failure, the gate clears the session, answers 401 without invoking the
\* wrapped handler, and the next /auth/status call on that session answers
\* authenticated: false.
C3_RefreshFailureClearsSession ==
    \A r \in Requests :
        /\ (req[r].pc = "done" /\ req[r].log = <<"refresh", "raised">>) =>
              /\ req[r].resp.status = 401
              /\ req[r].sess = EmptySession
              /\ req[r].modified
        /\ (Len(req[r].log) >= 2 /\ req[r].log[1] = "refresh"
                /\ req[r].log[2] = "raised") =>
              Count(req[r].log, "dispatch") = 0
        /\ (req[r].pc = "done" /\ req[r].ep = "status"
                /\ req[r].from = "refresh_failed") =>
              req[r].resp.body = <<FALSE>>

\* C4: whenever the session holds no Token (initially, after logout, after a
\* failed refresh), a request to a protected endpoint is answered 401 and
\* neither the wrapped handler nor any upstream call is executed.
C4_NoTokenIsUnauthorized ==
    \A r \in Requests :
        (req[r].ep \in Protected /\ req[r].sess = EmptySession
            /\ req[r].wrote = "none") =>
              /\ req[r].pc = "done"
              /\ req[r].resp.status = 401
              /\ req[r].log = <<>>
              /\ req[r].atGate = "absent"

\* C4 witness: a protected request that arrived after a logout was answered 401
C4_Witness ==
    \E r \in Requests :
        /\ req[r].ep \in Protected /\ req[r].from = "logout"
        /\ req[r].sess = EmptySession
        /\ req[r].pc = "done" /\ req[r].resp.status = 401

\* C5: for the stream and GPX endpoints with an authenticated session: a
\* successful fetch of an empty coordinate sequence is answered 404, of a
\* non-empty one 200, and a failed fetch 500; a failure is never reported as
\* 404 and an empty success never as 500.
C5_StreamStatusMapping ==
    \A r \in Requests :
        (req[r].pc = "done" /\ req[r].ep \in {"stream", "gpx"}
            /\ Count(req[r].log, "upstream") = 1) =>
          LET outcome == req[r].log[Len(req[r].log)]
          IN  /\ (outcome = "returned" /\ Len(req[r].fetched) = 0) =>
                    req[r].resp.status = 404
              /\ (outcome = "returned" /\ Len(req[r].fetched) > 0) =>
                    req[r].resp.status = 200
              /\ outcome = "raised" => req[r].resp.status = 500

\* C5 witness: one request got 404 for an empty stream while another got 500
\* for a failed fetch
C5_Witness ==
    \E r, o \in Requests :
        /\ req[r].pc = "done" /\ req[r].ep \in {"stream", "gpx"}
        /\ Count(req[r].log, "upstream") = 1
        /\ req[r].log[Len(req[r].log)] = "returned"
        /\ req[r].fetched = <<>> /\ req[r].resp.status = 404
        /\ req[o].pc = "done" /\ req[o].ep \in {"stream", "gpx"}
        /\ Count(req[o].log, "upstream") = 1
        /\ req[o].log[Len(req[o].log)] = "raised" /\ req[o].resp.status = 500

\* the raw records an answered /api/activities request fetched
Answered(r) ==
    /\ req[r].pc = "done" /\ req[r].ep = "activities"
    /\ Len(req[r].log) > 0 /\ req[r].log[Len(req[r].log)] = "returned"

InBody(r, act) == \E j \in 1..Len(req[r].resp.body) : req[r].resp.body[j] = act.id

\* C6 as stated: a raw activity record is in the filtered result iff its map
\* carries the summary polyline key, even when the value is the empty string.
C6_IncludedIffKeyPresent ==
    \A r \in Requests :
        Answered(r) =>
            \A i \in 1..Len(req[r].fetched) :
                LET act == req[r].fetched[i]
                IN  InBody(r, act) <=> (act.has_map /\ act.has_key)

\* C6 amended: a raw activity record is in the filtered result iff its map
\* carries the summary polyline key with a non-empty value; a record whose
\* value is the empty string or null is excluded like one whose key is absent.
C6_IncludedIffPolylineNonEmpty ==
    \A r \in Requests :
        Answered(r) =>
            /\ req[r].resp.status = 200
            /\ \A i \in 1..Len(req[r].fetched) :
                  LET act == req[r].fetched[i]
                  IN  InBody(r, act) <=>
                        (act.has_map /\ act.has_key /\ act.poly \notin {"", "<None>"})

\* C6 witness: a record whose polyline is the empty string was left out while
\* a record with a polyline was kept
C6_Witness ==
    \E r, o \in Requests :
        /\ Answered(r) /\ Len(req[r].fetched) = 1
        /\ req[r].fetched[1].has_key /\ req[r].fetched[1].poly = ""
        /\ req[r].resp.body = <<>>
        /\ Answered(o) /\ Len(req[o].fetched) = 1
        /\ req[o].fetched[1].poly = "enc" /\ req[o].resp.body = <<1>>

----------------------------------------------------------------------------
(* POST /api/pois: the request body *)

MaxRoute == 6      \* points in a route
MaxResults == 2    \* places one proximity search returns
MaxFeatures == 2   \* map features one bulk query returns

\* JSON scalars: a number, or a one-character string (by its character code)
Num(x) == [t |-> "num", v |-> x]
Str(c) == [t |-> "str", v |-> c]

\* the elements a route can hold: a [lat, lng] pair, or something else
Pair(i) == [kind |-> "pair", items |-> <<Num(i), Num(10 + i)>>]
BadKinds == {"scalar", "short", "string", "mapping"}
BadElement(kind, i) ==
    CASE kind = "scalar"  -> [kind |-> "scalar", items |-> <<>>]
      [] kind = "short"   -> [kind |-> "short", items |-> <<Num(i)>>]
      [] kind = "string"  -> [kind |-> "string", items |-> <<Str(97), Str(98)>>]
      [] kind = "mapping" -> [kind |-> "mapping", items |-> <<>>]

\* routes of up to MaxRoute points, with at most one element that is no pair
Routes ==
    UNION {{[k \in 1..n |-> Pair(k)]}
             \cup {[k \in 1..n |-> IF k = b THEN BadElement(kind, k) ELSE Pair(k)]
                     : b \in 1..n, kind \in BadKinds}
           : n \in 0..MaxRoute}

\* request.get_json(): nothing, a body without 'route', a 'route' that is a
\* number, or a 'route' that is a list
PoiBodies ==
    {[shape |-> sh, route |-> <<>>] : sh \in {"none", "no_route", "not_list"}}
      \cup {[shape |-> "list", route |-> rt] : rt \in Routes}

WellFormed(route) == \A k \in 1..Len(route) : route[k].kind = "pair"

\* coord[idx] of Python, idx counted from 0: the value, or the exception raised
getitem(coord, idx) ==
    CASE coord.kind = "scalar"  -> [exc |-> "TypeError", val |-> Num(0)]
      [] coord.kind = "mapping" -> [exc |-> "KeyError", val |-> Num(0)]
      [] OTHER ->
            IF idx + 1 <= Len(coord.items)
            THEN [exc |-> "none", val |-> coord.items[idx + 1]]
            ELSE [exc |-> "IndexError", val |-> Num(0)]

\* [coord[1], coord[0]] of one element: coord[1] is evaluated first
swap_exc(coord) ==
    IF getitem(coord, 1).exc # "none" THEN getitem(coord, 1).exc
    ELSE getitem(coord, 0).exc

\* route_coords = [[coord[1], coord[0]] for coord in route]:
\* the [lng, lat] list, or the exception of the first element that raises
swap_route(route) ==
    LET bad == {k \in 1..Len(route) : swap_exc(route[k]) # "none"}
        first == CHOOSE k \in bad : \A o \in bad : k <= o
    IN  IF bad = {}
        THEN [exc |-> "none",
              val |-> [k \in 1..Len(route) |->
                         <<getitem(route[k], 1).val, getitem(route[k], 0).val>>]]
        ELSE [exc |-> swap_exc(route[first]), val |-> <<>>]

PoiAnswer(p, status, body) ==
    [p EXCEPT !.pc = "done", !.resp = [status |-> status, body |-> body]]

----------------------------------------------------------------------------
(* Strategy B, src/src/poi_service.py: proximity search per sample point *)

Max(a, b) == IF a >= b THEN a ELSE b

\* seq[::step]
Stride(seq, step) ==
    [j \in 1..((Len(seq) + step - 1) \div step) |-> seq[(j - 1) * step + 1]]

\* (lat, lng) for lng, lat in coords
to_lat_lng(coords) == [j \in 1..Len(coords) |-> <<coords[j][2], coords[j][1]>>]

\* _sample_route_points: the sample points, or the exception raised
sample_route_points(route_coords, sample_distance) ==
    LET n == Len(route_coords)
        per == (n * 100) \div sample_distance
    IN  IF n <= 2
        THEN [exc |-> "none", val |-> to_lat_lng(route_coords)]
        ELSE IF per = 0
             THEN [exc |-> "ZeroDivisionError", val |-> <<>>]
             ELSE [exc |-> "none",
                   val |-> to_lat_lng(Stride(route_coords, Max(1, n \div per)))]

\* what one places_nearby call answers: up to MaxResults results, each a place
\* id, or "bad" for a result that lacks a key the loop reads
PlaceIds == {"p1", "p2"}
SearchResults ==
    UNION {[1..n -> PlaceIds \cup {"bad"}] : n \in 0..MaxResults}

\* place_id in found_pois
already_found_Never(found, place_id) == FALSE

already_found(found, place_id) ==
    \E j \in 1..Len(found) : found[j].place_id = place_id

\* for poi in results: ... found_pois[place_id] = {...}, from result k on; a
\* result that raises ends the loop over this call's results
RECURSIVE accumulate(_, _, _, _)
accumulate(found, results, at, k) ==
    IF k > Len(results) THEN found
    ELSE IF results[k] = "bad" THEN found
    ELSE accumulate(IF already_found(found, results[k])
                    THEN found
                    ELSE Append(found, [place_id |-> results[k], seen_at |-> at]),
                    results, at, k + 1)

\* an exception leaves the resolver
PoiRaise(p, exc) == [p EXCEPT !.pc = "raised", !.resp = [status |-> 0, body |-> <<exc>>]]

\* get_pois_for_route, up to its first places_nearby call
get_pois_for_route(p, route_coords) ==
    IF Len(route_coords) = 0
    THEN PoiAnswer(p, 200, <<>>)
    ELSE LET sp == sample_route_points(route_coords, p.sampling)
         IN  IF sp.exc # "none"
             THEN PoiRaise(p, sp.exc)
             ELSE IF Len(sp.val) = 0
                  THEN PoiAnswer([p EXCEPT !.samples = sp.val], 200, <<>>)
                  ELSE [p EXCEPT !.pc = "searching", !.samples = sp.val,
                                 !.i = 1, !.calls = 1]

\* a loop that a failed search ends: what was found so far is returned
search_returns_StopsAtFailure(p, outcome, results) ==
    LET found == IF outcome = "ok"
                 THEN accumulate(p.found_pois, results, p.i, 1)
                 ELSE p.found_pois
        raised == outcome # "ok" \/ \E k \in 1..Len(results) : results[k] = "bad"
        q == [p EXCEPT !.found_pois = found,
                       !.last = results,
                       !.failed = IF raised THEN @ \cup {p.i} ELSE @]
    IN  IF p.i = Len(p.samples) \/ raised
        THEN PoiAnswer(q, 200, found)
        ELSE [q EXCEPT !.i = @ + 1, !.calls = @ + 1]

\* get_pois_for_route, from the return of the places_nearby call of sample
\* point p.i to the next call, or to the return of list(found_pois.values())
search_returns(p, outcome, results) ==
    LET found == IF outcome = "ok"
                 THEN accumulate(p.found_pois, results, p.i, 1)
                 ELSE p.found_pois
        raised == outcome # "ok" \/ \E k \in 1..Len(results) : results[k] = "bad"
        q == [p EXCEPT !.found_pois = found,
                       !.last = results,
                       !.failed = IF raised THEN @ \cup {p.i} ELSE @]
    IN  IF p.i = Len(p.samples)
        THEN PoiAnswer(q, 200, found)
        ELSE [q EXCEPT !.i = @ + 1, !.calls = @ + 1]

root_except_status(exc) ==
    IF exc \in {"IndexError", "TypeError"} THEN 400 ELSE 500

route_too_short(body) == body.shape = "not_list" \/ Len(body.route) < 2

\* get_nearby_pois of src/src/app.py, up to the first blocking call
root_get_nearby_pois(p) ==
    IF p.body.shape \in {"none", "no_route"}
    THEN PoiAnswer(p, 400, <<"Route data is required">>)
    ELSE IF route_too_short(p.body)
    THEN PoiAnswer(p, 400, <<"Route must be a list with at least 2 coordinates">>)
    ELSE LET sw == swap_route(p.body.route)
         IN  IF sw.exc # "none"
             THEN PoiAnswer(p, root_except_status(sw.exc), <<sw.exc>>)
             ELSE LET r == get_pois_for_route(p, sw.val)
                  IN  IF r.pc = "raised"
                      THEN PoiAnswer(r, root_except_status(r.resp.body[1]),
                                     r.resp.body)
                      ELSE r

----------------------------------------------------------------------------
(* Strategy A, src/src/backend/poi_service.py: one bulk query, filtered *)

\* what one features_from_geometry call answers: up to MaxFeatures features,
\* each at some distance in metres from the route line
Distances == {50, 100, 150}
Features ==
    UNION {{[k \in 1..n |-> [id |-> k, distance |-> ds[k]]] : ds \in [1..n -> Distances]}
           : n \in 0..MaxFeatures}

\* point.distance(route_proj) <= 100
within_radius(feature) == feature.distance <= RouteRadius

\* LineString(route_coords) raises for fewer than 2 points and for
\* coordinates that are not numbers
line_string_raises(route_coords) ==
    \/ Len(route_coords) < 2
    \/ \E k \in 1..Len(route_coords) :
          route_coords[k][1].t # "num" \/ route_coords[k][2].t # "num"

\* get_pois_for_route of the backend variant, up to its bulk query
backend_get_pois_for_route(p, route_coords) ==
    IF Len(route_coords) = 0
    THEN PoiAnswer(p, 200, <<>>)
    ELSE IF line_string_raises(route_coords)
         THEN PoiRaise(p, "ValueError")
         ELSE [p EXCEPT !.pc = "fetching", !.calls = 1]

\* get_nearby_pois of src/src/backend/app.py, up to the first blocking call:
\* the coordinate swap is outside the try, the resolver inside
backend_get_nearby_pois(p) ==
    IF p.body.shape \in {"none", "no_route"}
    THEN PoiAnswer(p, 400, <<"Missing route data">>)
    ELSE IF p.body.shape = "not_list"
    THEN PoiAnswer(p, 500, <<"Internal Server Error">>)
    ELSE LET sw == swap_route(p.body.route)
         IN  IF sw.exc # "none"
             THEN PoiAnswer(p, 500, <<"Internal Server Error">>)
             ELSE LET r == backend_get_pois_for_route(p, sw.val)
                  IN  IF r.pc = "raised"
                      THEN PoiAnswer(r, 500, <<"Failed to retrieve points of interest">>)
                      ELSE r

\* get_pois_for_route of the backend variant, from the return of the bulk query on
features_return(p, outcome, features) ==
    IF outcome = "ok"
    THEN PoiAnswer([p EXCEPT !.last = features], 200,
                   SelectSeq(features, within_radius))
    ELSE PoiAnswer([p EXCEPT !.failed = {1}], 500,
                   <<"Failed to retrieve points of interest">>)

----------------------------------------------------------------------------
(* POST /api/pois: actions *)

\* the sampling distances a process can be configured with
SamplingDistances == {200, DefaultSamplingDistance}

get_nearby_pois(v, p) ==
    IF v = "root" THEN root_get_nearby_pois(p) ELSE backend_get_nearby_pois(p)

\* places_nearby formats the location as two floats before it sends anything:
\* it raises for a location that is not a pair of numbers
numeric_location(location) == location[1].t = "num" /\ location[2].t = "num"

\* POST /api/pois arrives
PoiRequest ==
    /\ poi.pc = "idle"
    /\ \E body \in PoiBodies :
          poi' = get_nearby_pois(variant, [poi EXCEPT !.body = body])
    /\ UNCHANGED <<variant, now, cookie, cookieFrom, req, boot>>

\* gmaps.places_nearby returns or raises for the current sample point
SearchReturns ==
    /\ poi.pc = "searching"
    /\ \/ /\ numeric_location(poi.samples[poi.i])
          /\ \E results \in SearchResults :
                poi' = search_returns(poi, "ok", results)
       \/ \E outcome \in {"api_error", "other_error"} :
             poi' = search_returns(poi, outcome, <<>>)
    /\ UNCHANGED <<variant, now, cookie, cookieFrom, req, boot>>

\* ox.features_from_geometry returns or raises
FeaturesReturn ==
    /\ poi.pc = "fetching"
    /\ \/ \E features \in Features : poi' = features_return(poi, "ok", features)
       \/ poi' = features_return(poi, "error", <<>>)
    /\ UNCHANGED <<variant, now, cookie, cookieFrom, req, boot>>

\* the response is sent; the process serves the next request
PoiRespond ==
    /\ poi.pc = "done"
    /\ poi' = [PoiIdle EXCEPT !.sampling = poi.sampling]
    /\ UNCHANGED <<variant, now, cookie, cookieFrom, req, boot>>

PoiInit ==
    /\ variant \in Variants
    /\ now = 0
    /\ cookie = EmptySession
    /\ cookieFrom = "none"
    /\ req = [r \in Requests |-> IdleSlot]
    /\ poi \in {[PoiIdle EXCEPT !.sampling = d] : d \in SamplingDistances}
    /\ boot = Booted(variant)

PoiNext == PoiRequest \/ SearchReturns \/ FeaturesReturn \/ PoiRespond

PoiSpec == PoiInit /\ [][PoiNext]_vars

----------------------------------------------------------------------------
(* Properties of POST /api/pois *)

\* the request being served carries a list as its route
HasRoute == poi.pc # "idle" /\ poi.body.shape = "list"

NoDuplicates(found) ==
    \A j, k \in 1..Len(found) : found[j].place_id = found[k].place_id => j = k

HasRecord(found, place) == \E j \in 1..Len(found) : found[j].place_id = place

IsPrefix(a, b) == Len(a) <= Len(b) /\ \A j \in 1..Len(a) : a[j] = b[j]

\* the results of a call that the loop got to read: those before the first
\* result that raises
Read(results) ==
    {k \in 1..Len(results) : \A j \in 1..k : results[j] # "bad"}

\* C7: for every route with fewer than 2 points, in both variants, the POI
\* request is rejected with 400 and no network call is issued.
C7_ShortRouteRejected ==
    (HasRoute /\ Len(poi.body.route) < 2) =>
        /\ poi.pc = "done"
        /\ poi.resp.status = 400
        /\ poi.calls = 0

\* C8: the list Strategy B returns holds at most one record per place id: a
\* place returned by several searches yields exactly one record, the first one
\* discovered, and the accumulated mapping never holds two entries for one id.
C8_OneRecordPerPlace ==
    [][(poi.pc = "searching" /\ poi'.pc \in {"searching", "done"}) =>
          /\ NoDuplicates(poi'.found_pois)
          /\ IsPrefix(poi.found_pois, poi'.found_pois)
          /\ \A j \in (Len(poi.found_pois) + 1)..Len(poi'.found_pois) :
                poi'.found_pois[j].seen_at = poi.i
          /\ poi.i \notin poi'.failed =>
                \A k \in Read(poi'.last) :
                    HasRecord(poi'.found_pois, poi'.last[k])
          /\ poi'.pc = "done" =>
                /\ poi'.resp.status = 200
                /\ poi'.resp.body = poi'.found_pois]_vars

\* C8 witness: the last search returned place p1 again, which the first sample
\* point had discovered, and the answer holds the one record of the first
C8_Witness ==
    /\ variant = "root" /\ poi.pc = "done" /\ poi.resp.status = 200
    /\ Len(poi.samples) >= 2
    /\ \E k \in Read(poi.last) : poi.last[k] = "p1"
    /\ \E j \in 1..Len(poi.resp.body) :
          poi.resp.body[j] = [place_id |-> "p1", seen_at |-> 1]
    /\ NoDuplicates(poi.resp.body)

\* no call of the request raised and none returned a match: no place for
\* Strategy B, no feature within the radius of the route for Strategy A
NoMatch ==
    /\ poi.failed = {}
    /\ IF variant = "root"
       THEN poi.found_pois = <<>>
       ELSE \A k \in 1..Len(poi.last) : poi.last[k].distance > RouteRadius

\* C9: for every syntactically valid route (2 or more [lat, lng] pairs, of any
\* length) for which no search returns any match, POST /api/pois answers 200
\* with an empty list, not an error status.
C9_NoMatchIsEmpty200 ==
    (HasRoute /\ poi.pc = "done" /\ Len(poi.body.route) >= 2
        /\ WellFormed(poi.body.route) /\ NoMatch) =>
            /\ poi.resp.status = 200
            /\ poi.resp.body = <<>>

\* C10: for every route of length >= 2 with an element that is no well-formed
\* [lat, lng] pair, POST /api/pois answers 400, never 200 or 500; and 400 is
\* answered only for malformed or too-short input.
C10_MalformedRouteIs400 ==
    /\ (HasRoute /\ poi.pc = "done" /\ Len(poi.body.route) >= 2
            /\ ~WellFormed(poi.body.route)) =>
                poi.resp.status = 400
    /\ (poi.pc = "done" /\ poi.resp.status = 400) =>
            \/ poi.body.shape # "list"
            \/ Len(poi.body.route) < 2
            \/ ~WellFormed(poi.body.route)

C14_SamplingIsTotal ==
    (variant = "root" /\ HasRoute /\ Len(poi.body.route) >= 2
        /\ WellFormed(poi.body.route)) =>
            LET route_coords == swap_route(poi.body.route).val
                sp == sample_route_points(route_coords, poi.sampling)
            IN  /\ sp.exc = "none"
                /\ Len(sp.val) >= 1
                /\ sp.val[1] = <<route_coords[1][2], route_coords[1][1]>>
                /\ \E step \in 1..Len(route_coords) :
                      sp.val = to_lat_lng(Stride(route_coords, step))
                /\ poi.pc = "searching" => poi.samples = sp.val

----------------------------------------------------------------------------
(* Process start: actions *)

Quiet == UNCHANGED <<variant, now, cookie, cookieFrom, req, poi>>

\* the import statements of app.py run
ImportModules ==
    /\ boot.pc = "start"
    /\ boot' = import_modules(variant, boot)
    /\ Quiet

\* Config.validate() runs: src/src/app.py only
ValidateConfig ==
    /\ variant = "root"
    /\ boot.pc = "imported"
    /\ boot' = validate_config(boot)
    /\ Quiet

\* the Flask application is constructed and given its secret key
CreateApp ==
    /\ boot.pc = (IF variant = "root" THEN "validated" ELSE "imported")
    /\ boot' = create_app(boot)
    /\ Quiet

\* the provider client is constructed
CreateClient ==
    /\ boot.pc = "app"
    /\ boot' = get_strava_client(variant, boot)
    /\ Quiet

\* the module is loaded: the server starts to take requests
Serve ==
    /\ boot.pc = "client"
    /\ boot' = serve(boot)
    /\ Quiet

StartInit ==
    /\ variant \in Variants
    /\ now = 0
    /\ cookie = EmptySession
    /\ cookieFrom = "none"
    /\ req = [r \in Requests |-> IdleSlot]
    /\ poi = PoiIdle
    /\ boot \in {BootStart(env) : env \in Environments}

StartNext == ImportModules \/ ValidateConfig \/ CreateApp \/ CreateClient \/ Serve

StartSpec == StartInit /\ [][StartNext]_vars

----------------------------------------------------------------------------
(* Properties of the process start *)

\* a required value is missing from the environment
Missing(env) == {n \in EnvNames : env[n] = "<None>"}

\* C12: while any required configuration value (provider client id, provider
\* client secret, maps-provider API key, session signing secret) is missing
\* from the environment, the process is never serving, and neither the
\* application nor the provider client has been constructed.
C12_NoServingWithMissingConfig ==
    Missing(boot.env) # {} =>
        /\ boot.pc # "serving"
        /\ ~boot.app
        /\ ~boot.strava_api

----------------------------------------------------------------------------
(* Properties of the authorization callback *)

\* C11: when a request of GET /auth/strava/callback is answered: without a
\* code the answer is 400 and exchange_code_for_token was never called; when
\* the exchange raised the answer is 500; in both cases the request's session
\* is the one it arrived with and the browser's cookie is left as it is.  Only
\* when the exchange returned is the returned Token the session's Token and
\* the cookie's, and the answer is then the 302 redirect.
C11_CallbackStoresOnlyOnSuccess ==
    [][\A r \in Requests :
          (req[r].ep = "callback" /\ req[r].pc = "done" /\ req'[r].pc = "idle") =>
             LET q == req[r]
                 exchanged == Count(q.log, "exchange")
                 returned == Count(q.log, "returned") = 1
             IN  /\ q.code = "absent" =>
                       /\ q.resp.status = 400
                       /\ exchanged = 0
                 /\ q.code = "present" => exchanged = 1
                 /\ (exchanged = 1 /\ ~returned) => q.resp.status = 500
                 /\ ~returned =>
                       /\ ~q.modified
                       /\ q.wrote = "none"
                       /\ cookie' = cookie
                 /\ returned =>
                       /\ q.resp.status = 302
                       /\ HasToken(q.sess)
                       /\ q.wrote = "callback"
                       /\ cookie' = q.sess
                 /\ q.resp.status = 302 => returned]_vars

\* a callback whose exchange raised is answered while the browser holds a
\* Token from an earlier sign-in
C11_Witness ==
    \E r \in Requests :
        /\ req[r].ep = "callback"
        /\ req[r].pc = "done"
        /\ Count(req[r].log, "raised") = 1
        /\ req[r].resp.status = 500
        /\ HasToken(req[r].sess)
        /\ HasToken(cookie)

----------------------------------------------------------------------------
(* Properties of concurrent requests at the session gate *)

\* two protected requests that arrived with the same expired Token are both
\* waiting for refresh_access_token, called with the same refresh_token
C15_BothRefreshSameToken ==
    \E r, o \in Requests :
        /\ r # o
        /\ req[r].pc = "refreshing" /\ req[o].pc = "refreshing"
        /\ req[r].atGate = "past" /\ req[o].atGate = "past"
        /\ req[r].sess = req[o].sess
        /\ req[r].refreshArg = req[o].refreshArg
        /\ Len(req[r].refreshArg) = 1

\* C15: the gate's refresh is not serialized across requests: two concurrent
\* protected requests with the same expired Token may both call
\* refresh_access_token with the same refresh_token; and in every interleaving
\* each request calls refresh at most once and ends either dispatched to its
\* handler or answered 401.
C15_ConcurrentRefreshTolerated ==
    \A r \in Requests :
        req[r].ep \in Protected =>
            /\ Count(req[r].log, "refresh") <= 1
            /\ Len(req[r].refreshArg) <= 1
            /\ req[r].pc = "done" =>
                  \/ Count(req[r].log, "dispatch") = 1
                  \/ req[r].resp.status = 401

====
